---- MODULE Spec2Model ----
(***************************************************************************)
(* Model of the netd TCP connection server (type TCPConn): two accept      *)
(* loops (client, cluster), the authentication gate, the provider          *)
(* registries, the connect hooks and Close.                                *)
(*                                                                         *)
(* A connection and the provider built for it share one identity (the      *)
(* index of the connection in conns); the nil Provider is 0.  A Go panic   *)
(* in any goroutine ends the process: panicked = TRUE disables everything. *)
(***************************************************************************)
EXTENDS Integers, Sequences, FiniteSets, TLC

\* ---------------------------------------------------------------- bounds
MaxConns == 2       \* connections accepted in one run
MaxLoops == 1       \* accept-loop tasks started in one run
MaxHooks == 2       \* hook registrations in one run
MaxTemps == 1       \* temporary accept errors in one run
MaxFails == 1       \* failing binds and socket closes in one run
MaxSends == 1       \* broadcasts in one run
MaxCloses == 2      \* Close() calls in one run
MaxBackoff == 8     \* temporary accept errors in one run of the back-off
MaxIncrements == 2  \* a counter is incremented while what was asked is below this
MaxSize == 2        \* sizes passed to IncrementReads / IncrementWrites
MaxServes == 2      \* accept-loop tasks started in one run of repeated Serve calls
MaxSubs == 2        \* subscriptions made on the source observable
MaxEnds == 1        \* IndefiniteObserver.End calls in one run
MaxAsync == 2       \* values sent through an asynchronous source observable
MaxVals == 3        \* values sent through the source observable
MaxSync == 1        \* deliveries of a synchronous source under way at once
MaxInits == 2       \* BaseProvider.Init calls in one run
MaxReadLoops == 2   \* BaseProvider.ReadLoop calls in one run
MaxProviderCloses == 2  \* BaseProvider.Close calls in one run

\* ------------------------------------------------------ program constants
ACCEPT_MIN_SLEEP == 10      \* milliseconds
ACCEPT_MAX_SLEEP == 1000    \* milliseconds

NilProvider == 0            \* the nil Provider interface value
NilListener == 0            \* the nil net.Listener interface value

\* ------------------------------------------------------------ credentials
Credential == [Username : {"alice", "bob"}, Password : {"secret", "wrong"}]

Cred(u, p) == [Username |-> u, Password |-> p]

\* The static credential lists a Config is drawn from, as pairs
\* << client list, cluster list >>.
OneUser == << Cred("alice", "secret") >>
TwoUsers == << Cred("bob", "wrong"), Cred("alice", "secret") >>
ListPairs == { << OneUser, << >> >>, << TwoUsers, OneUser >>, << << >>, TwoUsers >> }

\* Config.MatchClientCredentials / MatchClusterCredentials: the loop over the
\* list with the comparison of both fields.
MatchFirstOnly(list, cd) ==
  /\ Len(list) > 0
  /\ cd.Username = list[1].Username /\ cd.Password = list[1].Password

MatchAnyField(list, cd) ==
  \E i \in 1..Len(list) :
     cd.Username = list[i].Username \/ cd.Password = list[i].Password

MatchCredentials(list, cd) ==
  \E i \in 1..Len(list) :
     cd.Username = list[i].Username /\ cd.Password = list[i].Password

VARIABLES
  config,               \* the Config copied into the server by TCP()
  runningClient,        \* TCPConn.runningClient
  runningCluster,       \* TCPConn.runningCluster
  tcpClient,            \* TCPConn.tcpClient: a listener id or NilListener
  tcpCluster,           \* TCPConn.tcpCluster
  listeners,            \* the sockets bound so far: "open" or "closed"
  backlog,              \* per socket: connections made and not yet accepted
  clients,              \* TCPConn.clients
  clusters,             \* TCPConn.clusters
  onConnects,           \* TCPConn.onConnects (hook ids)
  onDisconnects,        \* TCPConn.onDisconnects
  onClusterConnects,    \* TCPConn.onClusterConnects
  onClusterDisconnects, \* TCPConn.onClusterDisconnects
  nhooks,               \* hooks registered so far (their ids are 1..nhooks)
  opWG,                 \* TCPConn.opWG counter
  conWG,                \* TCPConn.conWG counter
  loops,                \* the accept-loop goroutines started so far
  conns,                \* the connections accepted so far, with their providers
  calls,                \* the hook invocations made so far, in order
  closing,              \* the Close() calls made so far, each with its position
  ntemps,               \* temporary accept errors so far
  budget,               \* the inputs the environment may spend in this run
  mc,                   \* TCPConn.mc, the shared lock: "free" or "held"
  ret,                  \* what the last Serve / Close / SendTo call returned
  sent,                 \* the SendMessage calls of the broadcasts so far
  closed,               \* what the Close() calls did: made, busy, returned
  nfails,               \* failures of net.Listen and of Listener.Close so far
  unlocked,             \* the shared fields accessed so far without holding mc
  stats,                \* the Stat counters: the server's, and the calls made
  snapshot,             \* the list the last Clients() / Clusters() call returned
  found,                \* the last HasAddr call and its result
  bp,                   \* a BaseProvider and the ReadLoop calls made on it
  ob,                   \* a source Observable, its subscriptions and observers
  panicked              \* a goroutine panicked: the process is gone

vars == << bp, ob, config, budget, unlocked, stats, snapshot, found, mc, ret, sent, closed, nfails, runningClient, runningCluster, tcpClient, tcpCluster,
           listeners, backlog, clients, clusters, onConnects, onDisconnects,
           onClusterConnects, onClusterDisconnects, nhooks, opWG, conWG,
           loops, conns, calls, closing, ntemps, panicked >>

serverVars == << runningClient, runningCluster, tcpClient, tcpCluster,
                listeners, backlog >>
registryVars == << clients, clusters >>
hookVars == << onConnects, onDisconnects, onClusterConnects,
               onClusterDisconnects, nhooks >>

MakeConfig(auth, must, tls, lists) ==
  [ Authenticate       |-> auth,
    MustAuthenticate   |-> must,
    UseTLS             |-> tls,
    ClientCrendentails |-> lists[1],
    ClusterCredentials |-> lists[2],
    Log                |-> "sink",
    Trace              |-> "sink",
    TLSConfig          |-> IF tls THEN "given" ELSE "nil" ]

\* A Config whose Log and Trace fields were left unset by the caller.
Unset(c) == [c EXCEPT !.Log = "nil", !.Trace = "nil"]

\* Config.InitLogAndTrace, as TCP() calls it: the method has a value receiver,
\* so it assigns the default sinks to its own copy and the caller's Config is
\* what it was.
InitLogAndTrace(c) == c

\* A Config whose TLSConfig field was left for ParseTLS to fill in from the
\* certificate files.
NoContext(c) == [c EXCEPT !.TLSConfig = "nil"]

\* Config.ParseTLS, as TCP() calls it, when it returns nil: with a context
\* set or with UseTLS off it does nothing; otherwise it assigns the loaded
\* context to the copy its value receiver works on.  Either way the caller's
\* Config is what it was.
ParseTLS(c) == c

\* The Config values a run is drawn from.  With authentication on: every
\* pair of lists, mandatory or not, over plain sockets.  With authentication
\* off the lists are not read: one pair, mandatory or not.  And TLS with
\* authentication off and with authentication on and mandatory.
Configs ==
  { MakeConfig(TRUE, must, FALSE, lists) : must \in BOOLEAN, lists \in ListPairs }
  \cup { MakeConfig(FALSE, must, FALSE, << TwoUsers, OneUser >>) : must \in BOOLEAN }
  \cup { MakeConfig(auth, auth, TRUE, << TwoUsers, OneUser >>) : auth \in BOOLEAN }
  \cup { Unset(MakeConfig(FALSE, FALSE, FALSE, << TwoUsers, OneUser >>)) }

\* What the environment does in one run: it connects up to MaxConns times,
\* or it connects once and registers up to MaxHooks hooks, or it connects once
\* and makes up to MaxTemps accepts fail temporarily, or it connects once and
\* makes up to MaxFails binds or socket closes fail, or it connects up to
\* MaxConns times, broadcasts up to MaxSends times and never calls Close();
\* in each of the others it calls Close() once.  Or it connects once and calls Close() up to MaxCloses
\* times, one call while another is in progress or after it.  (hookback is
\* the id of the registered hook whose function calls back into a locking
\* operation of the server, sendback the provider whose SendMessage does; 0
\* for none.)
Budget(c, h, t, f, s) ==
  [conns |-> c, hooks |-> h, temps |-> t, fails |-> f, sends |-> s,
   loops |-> MaxLoops, hookback |-> 0, sendback |-> 0, closes |-> 1]

Budgets ==
  { Budget(MaxConns, 0, 0, 0, 0),
    Budget(1, MaxHooks, 0, 0, 0),
    Budget(1, 0, MaxTemps, 0, 0),
    Budget(1, 0, 0, MaxFails, 0),
    [Budget(MaxConns, 0, 0, 0, MaxSends) EXCEPT !.closes = 0],
    [Budget(1, 0, 0, 0, 0) EXCEPT !.closes = MaxCloses] }

\* NewObservable(behaviour, async) with no subscription yet.  (made holds
\* every Subscription made so far: its observer, 0 once ended, the number
\* of Next / Done calls made when it was made and when it was ended, and the
\* values whose call had returned when it was ended; returned are the values
\* whose Next / Done call has returned; subs is in.subs,
\* the subscriptions of the list by their position in made; pending are the
\* Next / Done deliveries under way, enders the End() calls in progress and
\* nends the End() calls made; got is what each observer received.)
NewObservable(async) ==
  [doAsync |-> async, subs |-> << >>, made |-> << >>, nsent |-> 0,
   returned |-> {},
   pending |-> {}, enders |-> {}, nends |-> 0, got |-> << >>,
   panicked |-> FALSE]

\* NewBaseProvider(conn): the zero BaseProvider (Closer is a channel id, 0 for
\* the nil channel; chans are the channels made so far; tasks are the ReadLoop
\* calls; got is the channel the last CloseNotify() returned).
NewBaseProvider ==
  [running |-> FALSE, Closer |-> 0, chans |-> << >>, tasks |-> << >>,
   ncloses |-> 0, got |-> 0, panicked |-> FALSE]

\* The zero Stat and the zero BaseInfo.
ZeroStat ==
  [InMsg |-> 0, OutMsg |-> 0, OutBytes |-> 0, InBytes |-> 0, Requests |-> 0,
   TotalClients |-> 0]

ZeroInfo == [Addr |-> "", Port |-> 0]

ZeroFields ==
  /\ tcpClient = NilListener
  /\ tcpCluster = NilListener
  /\ listeners = << >>
  /\ backlog = << >>
  /\ clients = << >>
  /\ clusters = << >>
  /\ onConnects = << >>
  /\ onDisconnects = << >>
  /\ onClusterConnects = << >>
  /\ onClusterDisconnects = << >>
  /\ nhooks = 0
  /\ opWG = 0
  /\ conWG = 0
  /\ loops = << >>
  /\ conns = << >>
  /\ calls = << >>
  /\ closing = << >>
  /\ ntemps = 0
  /\ mc = "free"
  /\ ret = "none"
  /\ sent = << >>
  /\ nfails = 0
  /\ unlocked = {}
  /\ bp = NewBaseProvider
  /\ stats = [server |-> ZeroStat, calls |-> ZeroStat]
  /\ snapshot = [op |-> "none", list |-> << >>, edited |-> FALSE]
  /\ found = [addr |-> "", port |-> 0, info |-> ZeroInfo]
  /\ closed = [busy |-> FALSE, returned |-> FALSE, calls |-> 0]
  /\ panicked = FALSE

\* The state after construction, but for the config and the inputs of the
\* run: the fields above and a synchronous observable.
ZeroServer == ZeroFields /\ ob = NewObservable(FALSE)

\* The budget of a run of repeated Serve and Close calls: the binds succeed
\* (Config.Port 0 gives every net.Listen a port of its own), up to MaxServes
\* accept loops are started and up to MaxConns peers connect.
ServeBudget ==
  [Budget(MaxConns, 0, 0, 0, 0) EXCEPT !.loops = MaxServes, !.closes = MaxCloses]

\* TCP(c): InitLogAndTrace and ParseTLS are called on the Config, the zero
\* TCPConn is built and the Config is copied in.  Both running flags are
\* false.
Init ==
  /\ config \in { ParseTLS(InitLogAndTrace(c)) :
                    c \in Configs \cup
                         { NoContext(MakeConfig(FALSE, FALSE, TRUE, << TwoUsers, OneUser >>)) } }
  /\ budget \in Budgets \cup { ServeBudget }
  /\ runningClient = FALSE
  /\ runningCluster = FALSE
  /\ ZeroServer

\* No statement of the package assigns true to a running flag, so in a run
\* from Init no accept loop gets past `for c.IsRunning()` and no Close() gets
\* past `if !c.IsRunning()`: the statements behind the two tests are never
\* executed.  What these statements do is examined from the states below,
\* which are those of Init and, besides, those with a flag set.  Every run
\* from Init with a Config of Configs and a budget of Budgets is a run from
\* LoopInit, so an invariant of the latter is an invariant of the program; a
\* state reached only with a flag set is not a state of the program.
FlagsAnyWay == runningClient \in BOOLEAN /\ runningCluster \in BOOLEAN

LoopInit ==
  /\ config \in { ParseTLS(InitLogAndTrace(c)) : c \in Configs }
  /\ budget \in Budgets
  /\ FlagsAnyWay
  /\ ZeroServer

\* TCPConn.IsRunning
AlwaysRunning == TRUE

IsRunning == runningClient \/ runningCluster

\* ------------------------------------------------------ hook registration
OnClientConnect ==
  /\ ~panicked /\ nhooks < budget.hooks
  /\ mc = "free"
  /\ nhooks' = nhooks + 1
  /\ onConnects' = Append(onConnects, nhooks + 1)
  /\ UNCHANGED << bp, ob, config, budget, unlocked, stats, snapshot, found, mc, ret, sent, closed, nfails, serverVars, registryVars, onDisconnects,
                  onClusterConnects, onClusterDisconnects, opWG, conWG, ntemps,
                  loops, conns, calls, closing, panicked >>

OnClientDisconnect ==
  /\ ~panicked /\ nhooks < budget.hooks
  /\ mc = "free"
  /\ nhooks' = nhooks + 1
  /\ onDisconnects' = Append(onDisconnects, nhooks + 1)
  /\ UNCHANGED << bp, ob, config, budget, unlocked, stats, snapshot, found, mc, ret, sent, closed, nfails, serverVars, registryVars, onConnects,
                  onClusterConnects, onClusterDisconnects, opWG, conWG, ntemps,
                  loops, conns, calls, closing, panicked >>

OnClusterConnect ==
  /\ ~panicked /\ nhooks < budget.hooks
  /\ mc = "free"
  /\ nhooks' = nhooks + 1
  /\ onClusterConnects' = Append(onClusterConnects, nhooks + 1)
  /\ UNCHANGED << bp, ob, config, budget, unlocked, stats, snapshot, found, mc, ret, sent, closed, nfails, serverVars, registryVars, onConnects,
                  onDisconnects, onClusterDisconnects, opWG, conWG, ntemps,
                  loops, conns, calls, closing, panicked >>

OnClusterDisconnect ==
  /\ ~panicked /\ nhooks < budget.hooks
  /\ mc = "free"
  /\ nhooks' = nhooks + 1
  /\ onClusterDisconnects' = Append(onClusterDisconnects, nhooks + 1)
  /\ UNCHANGED << bp, ob, config, budget, unlocked, stats, snapshot, found, mc, ret, sent, closed, nfails, serverVars, registryVars, onConnects,
                  onDisconnects, onClusterConnects, opWG, conWG, ntemps,
                  loops, conns, calls, closing, panicked >>

\* ------------------------------------------------------------ serving
\* A new accept-loop goroutine of class k, not yet scheduled.
\* (fresh notes that no temporary error came since the last successful accept
\* or the start of the loop; nsleeps counts the calls of time.Sleep and slept
\* is the duration of the last one; lis is the listener whose Accept() the
\* loop is inside, the value c.tcpClient / c.tcpCluster had when the call was
\* made.)
NewLoop(k) ==
  [class |-> k, pc |-> "start", sleepTime |-> ACCEPT_MIN_SLEEP, conn |-> 0,
   fresh |-> TRUE, nsleeps |-> 0, slept |-> 0, lis |-> NilListener]

\* What ServeClients / ServeClusters returns once net.Listen has answered: the
\* error of net.Listen, or nil.
ServeReturnAlwaysNil(bound) == "nil"

ServeReturn(bound) == IF bound THEN "nil" ELSE "error"

\* ServeClients: bound is the outcome of net.Listen.  The lock is taken on
\* entry and released on each of the three ways out.  The first statement is
\* a call of the Log sink, which panics on the nil interface.
ServeClients(bound) ==
  /\ ~panicked
  /\ mc = "free"
  /\ mc' = "free"
  /\ IF config.Log = "nil"
       THEN /\ bound
            /\ panicked' = TRUE
            /\ UNCHANGED << tcpClient, listeners, backlog, loops, nfails, ret >>
       ELSE /\ UNCHANGED panicked
            /\ IF runningClient
              THEN /\ ret' = "nil"
                   /\ UNCHANGED << tcpClient, listeners, backlog, loops, nfails >>
              ELSE IF ~bound
                THEN /\ nfails < budget.fails
                     /\ nfails' = nfails + 1
                     /\ tcpClient' = NilListener
                     /\ ret' = ServeReturn(bound)
                     /\ UNCHANGED << listeners, backlog, loops >>
                ELSE /\ Len(loops) < budget.loops
                     /\ UNCHANGED nfails
                     /\ listeners' = Append(listeners, "open")
                     /\ backlog' = Append(backlog, 0)
                     /\ tcpClient' = Len(listeners) + 1
                     /\ ret' = ServeReturn(bound)
                     /\ loops' = Append(loops, NewLoop("client"))
  /\ UNCHANGED << bp, ob, config, budget, unlocked, stats, snapshot, found, sent, closed, runningClient, runningCluster, tcpCluster,
                  registryVars, hookVars, opWG, conWG, ntemps, conns, calls,
                  closing >>

\* ServeClusters: bound is the outcome of net.Listen.
ServeClusters(bound) ==
  /\ ~panicked
  /\ mc = "free"
  /\ mc' = "free"
  /\ IF config.Log = "nil"
       THEN /\ bound
            /\ panicked' = TRUE
            /\ UNCHANGED << tcpCluster, listeners, backlog, loops, nfails, ret >>
       ELSE /\ UNCHANGED panicked
            /\ IF runningCluster
              THEN /\ ret' = "nil"
                   /\ UNCHANGED << tcpCluster, listeners, backlog, loops, nfails >>
              ELSE IF ~bound
                THEN /\ nfails < budget.fails
                     /\ nfails' = nfails + 1
                     /\ tcpCluster' = NilListener
                     /\ ret' = ServeReturn(bound)
                     /\ UNCHANGED << listeners, backlog, loops >>
                ELSE /\ Len(loops) < budget.loops
                     /\ UNCHANGED nfails
                     /\ listeners' = Append(listeners, "open")
                     /\ backlog' = Append(backlog, 0)
                     /\ tcpCluster' = Len(listeners) + 1
                     /\ ret' = ServeReturn(bound)
                     /\ loops' = Append(loops, NewLoop("cluster"))
  /\ UNCHANGED << bp, ob, config, budget, unlocked, stats, snapshot, found, sent, closed, runningClient, runningCluster, tcpClient,
                  registryVars, hookVars, opWG, conWG, ntemps, conns, calls,
                  closing >>

\* ------------------------------------------------------------ accept loops
\* The listener handle an accept loop of class k reads (c.tcpClient.Accept()
\* in clientLoop, c.tcpCluster.Accept() in clusterLoop).
ListenerOf(k) == IF k = "client" THEN tcpClient ELSE tcpCluster

\* The static credential list the gate of class k falls back on.
StaticListOf(k) ==
  IF k = "client" THEN config.ClientCrendentails ELSE config.ClusterCredentials

\* The registry the static-credential fallback of class k appends to: both
\* loops append to c.clients there.
FallbackRegistryOf(k) == "clients"

\* The registry the admission at the end of the iteration appends to.
AdmitRegistrySwapped(k) == IF k = "client" THEN "clusters" ELSE "clients"

AdmitRegistryOf(k) == IF k = "client" THEN "clients" ELSE "clusters"

\* The connect hooks callClientConnects / callClusterConnects iterate over.
ConnectHooksOf(k) == IF k = "client" THEN onConnects ELSE onClusterConnects

\* The Provider value the loop holds for connection i: nil when the handler
\* returned an error.
ProviderOf(i) == IF conns[i].prov = "nil" THEN NilProvider ELSE i

\* A freshly accepted connection of class k.
NewConn(k) ==
  [class |-> k, raw |-> "open", timer |-> "none", prov |-> "none",
   cred |-> Cred("alice", "secret"), verdict |-> "none", gate |-> "none",
   msgs |-> << >>, closes |-> 0, waiter |-> "none", notified |-> FALSE,
   at |-> 0, hs |-> "none", late |-> FALSE]

\* What the injected handler may return: an error (with a nil Provider), a
\* Provider without the ClientAuth capability, or one with it and credentials.
HandlerResults ==
  { [prov |-> "nil", cred |-> Cred("alice", "secret")],
    [prov |-> "plain", cred |-> Cred("alice", "secret")] }
  \cup { [prov |-> "auth", cred |-> cd] : cd \in Credential }

SetPc(t, pc) == [loops EXCEPT ![t].pc = pc]

\* c.<registry> = append(c.<registry>, p) under the lock.  (The at field of
\* a connection notes how many hooks were registered when it was inserted.)
Insert(reg, p) ==
  /\ clients' = IF reg = "clients" THEN Append(clients, p) ELSE clients
  /\ clusters' = IF reg = "clusters" THEN Append(clusters, p) ELSE clusters

\* The goroutine is scheduled: it registers itself in opWG.
LoopStart(t) ==
  /\ ~panicked
  /\ loops[t].pc = "start"
  /\ mc = "free"
  /\ opWG' = opWG + 1
  /\ loops' = SetPc(t, "check")
  /\ UNCHANGED << bp, ob, config, budget, unlocked, stats, snapshot, found, mc, ret, sent, closed, nfails, serverVars, registryVars, hookVars, conWG, ntemps, conns,
                  calls, closing, panicked >>

\* for c.IsRunning() { ... }: the flags are read under the lock, which is
\* released before the loop goes on.
LoopCheck(t) ==
  /\ ~panicked
  /\ loops[t].pc = "check"
  /\ mc = "free"
  /\ loops' = SetPc(t, IF IsRunning THEN "call" ELSE "exit")
  /\ UNCHANGED << bp, ob, config, budget, unlocked, stats, snapshot, found, mc, ret, sent, closed, nfails, serverVars, registryVars, hookVars, opWG, conWG, ntemps, conns,
                  calls, closing, panicked >>

\* The loop was left: the function returns and the deferred c.opWG.Done()
\* runs, without the lock.
LoopExit(t) ==
  /\ ~panicked
  /\ loops[t].pc = "exit"
  /\ loops' = SetPc(t, "done")
  /\ opWG' = opWG - 1
  /\ UNCHANGED << bp, ob, config, budget, unlocked, stats, snapshot, found, mc, ret, sent, closed, nfails, serverVars, registryVars, hookVars, conWG, ntemps, conns,
                  calls, closing, panicked >>

\* The back-off after a temporary accept error.
NextSleep(s) == IF 2 * s > ACCEPT_MAX_SLEEP THEN ACCEPT_MIN_SLEEP ELSE 2 * s

\* A peer connects to socket l; the connection waits to be accepted.
RECURSIVE Sum(_)
Sum(q) == IF q = << >> THEN 0 ELSE Head(q) + Sum(Tail(q))

Connect(l) ==
  /\ ~panicked
  /\ listeners[l] = "open"
  /\ Len(conns) + Sum(backlog) < budget.conns
  /\ backlog' = [backlog EXCEPT ![l] = @ + 1]
  /\ UNCHANGED << bp, ob, config, budget, unlocked, stats, snapshot, found, mc, ret, sent, closed, nfails, runningClient, runningCluster, tcpClient,
                  tcpCluster, listeners, registryVars, hookVars, opWG, conWG,
                  ntemps, loops, conns, calls, closing, panicked >>

\* time.Sleep(sleepTime): the duration slept is the delay as it is before
\* the doubling.
SleptAfterDoubling(s) == 2 * s

Slept(s) == s

\* sleepTime after a successful accept.
SleepKept(s) == s

SleepAfterAccept(s) == ACCEPT_MIN_SLEEP

\* time.Sleep is called for a temporary error only.
Sleeps(out) == out = "temporary"

\* conn, err := c.tcpClient.Accept() / c.tcpCluster.Accept(), the call: the
\* listener handle is read without the lock, and the method is entered on
\* the listener it holds at that moment.  A nil handle panics.
LoopCall(t) ==
  LET k == loops[t].class
      l == ListenerOf(k)
  IN
  /\ ~panicked
  /\ loops[t].pc = "call"
  /\ unlocked' = unlocked \cup {IF k = "client" THEN "tcpClient" ELSE "tcpCluster"}
  /\ IF l = NilListener
       THEN /\ panicked' = TRUE
            /\ UNCHANGED loops
       ELSE /\ UNCHANGED panicked
            /\ loops' = [loops EXCEPT ![t].pc = "accept", ![t].lis = l]
  /\ UNCHANGED << bp, ob, config, budget, stats, snapshot, found, mc, ret, sent, closed, nfails, serverVars, registryVars, hookVars, opWG, conWG, ntemps, conns,
                  calls, closing >>

\* Accept() returns on the listener the call was made on, whatever the
\* handle of the class holds by then.  out is "conn", "temporary" or
\* "error"; a closed listener only ever returns a non-temporary error; a
\* connection is returned when one waits on that listener.
LoopAccept(t, out) ==
  LET k == loops[t].class
      l == loops[t].lis
  IN
  /\ ~panicked
  /\ loops[t].pc = "accept"
  /\ listeners[l] = "closed" => out = "error"
  /\ CASE out = "error" ->
            /\ loops' = [loops EXCEPT ![t].pc = "check",
                           ![t].nsleeps = @ + (IF Sleeps(out) THEN 1 ELSE 0)]
            /\ UNCHANGED << conns, ntemps, backlog >>
       [] out = "temporary" ->
            /\ ntemps < budget.temps
            /\ ntemps' = ntemps + 1
            /\ loops' = [loops EXCEPT ![t].pc = "check",
                           ![t].sleepTime = NextSleep(loops[t].sleepTime),
                           ![t].fresh = FALSE,
                           ![t].slept = Slept(loops[t].sleepTime),
                           ![t].nsleeps = @ + (IF Sleeps(out) THEN 1 ELSE 0)]
            /\ UNCHANGED << conns, backlog >>
       [] out = "conn" ->
            /\ backlog[l] > 0
            /\ backlog' = [backlog EXCEPT ![l] = @ - 1]
            /\ UNCHANGED ntemps
            /\ conns' = Append(conns,
                 [NewConn(k) EXCEPT
                    !.timer = IF config.UseTLS THEN "armed" ELSE "none",
                    !.hs = IF config.UseTLS THEN "pending" ELSE "none"])
            /\ loops' = [loops EXCEPT
                 ![t].pc = IF config.UseTLS THEN "handshake" ELSE "handler",
                 ![t].sleepTime = SleepAfterAccept(loops[t].sleepTime),
                 ![t].fresh = TRUE,
                 ![t].conn = Len(conns) + 1]
  /\ UNCHANGED << bp, ob, config, budget, unlocked, stats, snapshot, found, mc, ret, sent, closed, nfails, runningClient, runningCluster, tcpClient,
                  tcpCluster, listeners, registryVars, hookVars, opWG, conWG,
                  calls, closing, panicked >>

\* tlsConn.Handshake() can only succeed on a socket that is still open.
HandshakeOnAnySocket(i) == TRUE

HandshakeCanSucceed(i) == conns[i].raw = "open" /\ config.TLSConfig # "nil"

\* tlsConn.Handshake(): on an error the connection is closed and the loop
\* continues; on success the loop goes on to the handler.  (hs notes how the
\* handshake ended.)
\* tls.Server(conn, config.TLSConfig) with a nil context: the handshake
\* fails if the peer's hello never arrives, and dereferences the nil context
\* (a panic) once it has arrived.
LoopHandshake(t, ok) ==
  LET i == loops[t].conn IN
  /\ ~panicked
  /\ loops[t].pc = "handshake"
  /\ IF ok /\ config.TLSConfig = "nil" /\ conns[i].raw = "open"
       THEN /\ panicked' = TRUE
            /\ UNCHANGED << loops, conns >>
       ELSE /\ ok => HandshakeCanSucceed(i)
            /\ UNCHANGED panicked
            /\ IF ok
                 THEN /\ loops' = SetPc(t, "handler")
                      /\ conns' = [conns EXCEPT ![i].hs = "done"]
                 ELSE /\ loops' = SetPc(t, "check")
                      /\ conns' = [conns EXCEPT ![i].raw = "closed",
                                                ![i].gate = "handshake",
                                                ![i].hs = "failed"]
  /\ UNCHANGED << bp, ob, config, budget, unlocked, stats, snapshot, found, mc, ret, sent, closed, nfails, serverVars, registryVars, hookVars, opWG, conWG, ntemps,
                  calls, closing >>

\* The time.AfterFunc action, run when the handshake timeout elapses: it
\* closes the connection if !tlsPassed, and tlsPassed is never assigned, so
\* it closes the connection whenever it runs.  (late notes that the handshake
\* had succeeded by then.)
TLSTimeout(i) ==
  /\ ~panicked
  /\ conns[i].timer = "armed"
  /\ conns' = [conns EXCEPT ![i].timer = "fired", ![i].raw = "closed",
                            ![i].late = (conns[i].hs = "done")]
  /\ UNCHANGED << bp, ob, config, budget, unlocked, stats, snapshot, found, mc, ret, sent, closed, nfails, serverVars, registryVars, hookVars, opWG, conWG, ntemps,
                  loops, calls, closing, panicked >>

\* provider, err := h(context, &connection).  On an error the connection is
\* closed, and the iteration goes on with the provider it was given.
LoopHandler(t, res) ==
  LET i == loops[t].conn IN
  /\ ~panicked
  /\ loops[t].pc = "handler"
  /\ conns' = [conns EXCEPT ![i].prov = res.prov, ![i].cred = res.cred,
                 ![i].raw = IF res.prov = "nil" THEN "closed" ELSE @]
  /\ loops' = SetPc(t, "gate")
  /\ UNCHANGED << bp, ob, config, budget, unlocked, stats, snapshot, found, mc, ret, sent, closed, nfails, serverVars, registryVars, hookVars, opWG, conWG, ntemps,
                  calls, closing, panicked >>

\* provider.SendMessage(msg) followed by provider.Close(): the rejection of
\* the provider of connection i, recorded as gate outcome g.
Reject(i, msg, g, v) ==
  conns' = [conns EXCEPT ![i].msgs = Append(@, msg),
                         ![i].closes = @ + 1,
                         ![i].gate = g,
                         ![i].verdict = v]

\* if !ok && c.config.MustAuthenticate: a provider without the ClientAuth
\* capability is turned away only when authentication is mandatory.
TurnedAwayUnlessMandatory(ok) == ~ok /\ ~config.MustAuthenticate

TurnedAway(ok) == ~ok /\ config.MustAuthenticate

\* Where the iteration goes after the static-credential fallback appended the
\* provider: continue.
AfterFallbackFallsThrough == "admit"

AfterFallback == "check"

\* The authentication gate of one iteration; verdict is the answer of the
\* class authenticator when it is consulted.
\* A method call on the nil Provider, or Credentials() on the nil ClientAuth,
\* panics: the loop dies inside the gate (gate outcome "fault").
LoopGate(t, verdict) ==
  LET i == loops[t].conn
      k == loops[t].class
      p == ProviderOf(i)
      ok == conns[i].prov = "auth"
  IN
  /\ ~panicked
  /\ loops[t].pc = "gate"
  /\ IF ~config.Authenticate
       THEN /\ verdict
            /\ loops' = SetPc(t, "admit")
            /\ UNCHANGED << conns, registryVars, panicked >>
       ELSE IF TurnedAway(ok)
         THEN /\ verdict
              /\ IF p = NilProvider
                   THEN /\ panicked' = TRUE
                        /\ conns' = [conns EXCEPT ![i].gate = "fault"]
                        /\ UNCHANGED loops
                   ELSE /\ Reject(i, "Error: Provider has no authentication. Authentication needed", "noauth", "none")
                        /\ loops' = SetPc(t, "check")
                        /\ UNCHANGED panicked
              /\ UNCHANGED registryVars
         ELSE IF verdict
           THEN /\ conns' = [conns EXCEPT ![i].verdict = "accept"]
                /\ loops' = SetPc(t, "admit")
                /\ UNCHANGED << registryVars, panicked >>
           ELSE IF ~ok
             THEN /\ panicked' = TRUE
                  /\ conns' = [conns EXCEPT ![i].gate = "fault"]
                  /\ UNCHANGED << loops, registryVars >>
             ELSE IF MatchCredentials(StaticListOf(k), conns[i].cred)
               THEN /\ mc = "free"
                    /\ Insert(FallbackRegistryOf(k), p)
                    /\ conns' = [conns EXCEPT ![i].verdict = "reject",
                                              ![i].gate = "fallback",
                                              ![i].at = nhooks]
                    /\ loops' = SetPc(t, AfterFallback)
                    /\ UNCHANGED panicked
               ELSE /\ Reject(i, "Error: Authentication failed", "invalid", "reject")
                    /\ loops' = SetPc(t, "check")
                    /\ UNCHANGED << registryVars, panicked >>
  /\ UNCHANGED << bp, ob, config, budget, unlocked, stats, snapshot, found, mc, ret, sent, closed, nfails, serverVars, hookVars, opWG, conWG, ntemps, calls, closing >>

\* go func() { <-provider.CloseNotify(); ... }(): the close waiter of the
\* connection is started, before the provider is in any registry and without
\* the lock.
LoopSpawn(t) ==
  LET i == loops[t].conn IN
  /\ ~panicked
  /\ loops[t].pc = "admit"
  /\ conns' = [conns EXCEPT ![i].waiter = "armed"]
  /\ loops' = SetPc(t, "append")
  /\ UNCHANGED << bp, ob, config, budget, unlocked, stats, snapshot, found, mc, ret, sent, closed, nfails, serverVars, registryVars, hookVars, opWG, conWG, ntemps, calls, closing,
                  panicked >>

\* The admission at the end of the iteration: the provider is appended to
\* the class registry under the lock.
LoopAdmit(t) ==
  LET i == loops[t].conn
      k == loops[t].class
  IN
  /\ ~panicked
  /\ loops[t].pc = "append"
  /\ mc = "free"
  /\ conns' = [conns EXCEPT ![i].at = nhooks,
                 ![i].gate = IF @ = "fallback" THEN @ ELSE "admit"]
  /\ Insert(AdmitRegistryOf(k), ProviderOf(i))
  /\ loops' = SetPc(t, "connects")
  /\ UNCHANGED << bp, ob, config, budget, unlocked, stats, snapshot, found, mc, ret, sent, closed, nfails, serverVars, hookVars, opWG, conWG, ntemps, calls, closing,
                  panicked >>

\* The invocations one pass over a hook list makes for provider p.
RECURSIVE CallsOf(_, _, _)
CallsOf(kind, hooks, p) ==
  IF hooks = << >> THEN << >>
  ELSE << [kind |-> kind, hook |-> Head(hooks), p |-> p] >>
         \o CallsOf(kind, Tail(hooks), p)

\* The position in q of the first entry equal to x, or 0 (x = 0 stands for
\* nothing).
FirstAt(q, x) ==
  IF x = 0 \/ \A n \in 1..Len(q) : q[n] # x THEN 0
  ELSE CHOOSE n \in 1..Len(q) : q[n] = x /\ \A m \in 1..(n - 1) : q[m] # x

\* c.mc after a pass made under it: sync.Mutex is not reentrant, so a
\* function called in the pass that locks c.mc again blocks for ever with the
\* lock held; otherwise the pass ends with c.mc.Unlock().
LockReentrant(reentered) == "free"

LockAfter(reentered) == IF reentered THEN "held" ELSE "free"

\* callClientConnects / callClusterConnects, then continue: the hooks are
\* called in list order under the lock.
LoopConnects(t) ==
  LET i == loops[t].conn
      k == loops[t].class
      hooks == ConnectHooksOf(k)
      n == FirstAt(hooks, budget.hookback)
  IN
  /\ ~panicked
  /\ loops[t].pc = "connects"
  /\ mc = "free"
  /\ mc' = LockAfter(n > 0)
  /\ calls' = calls \o CallsOf("connect",
                 IF n = 0 THEN hooks ELSE SubSeq(hooks, 1, n), ProviderOf(i))
  /\ loops' = SetPc(t, IF n = 0 THEN "check" ELSE "blocked")
  /\ UNCHANGED << bp, ob, config, budget, unlocked, stats, snapshot, found, ret, sent, closed, nfails, serverVars, registryVars, hookVars, opWG, conWG, ntemps,
                  conns, closing, panicked >>

\* ------------------------------------------------------------ close waiters
\* The disconnect hooks callClientDisconnects / callClusterDisconnects
\* iterate over.
DisconnectHooksOf(k) == IF k = "client" THEN onDisconnects ELSE onClusterDisconnects

\* The provider of connection i signals its closure (closes its CloseNotify
\* channel); when it does is up to the provider.
CloseNotify(i) ==
  /\ ~panicked
  /\ conns[i].prov \in {"plain", "auth"}
  /\ ~conns[i].notified
  /\ conns' = [conns EXCEPT ![i].notified = TRUE]
  /\ UNCHANGED << bp, ob, config, budget, unlocked, stats, snapshot, found, mc, ret, sent, closed, nfails, serverVars, registryVars, hookVars, opWG, conWG, ntemps,
                  loops, calls, closing, panicked >>

\* The goroutine started at admission: <-provider.CloseNotify(), then
\* c.conWG.Done(), then the disconnect hooks.  CloseNotify() on the nil
\* Provider panics, and so does Done() on a counter that is zero: the counter
\* is decremented first and the panic follows on the negative value.
Waiter(i) ==
  /\ ~panicked
  /\ conns[i].waiter = "armed"
  /\ IF conns[i].prov = "nil"
       THEN /\ panicked' = TRUE
            /\ UNCHANGED << conWG, conns, calls >>
       ELSE /\ conns[i].notified
            /\ IF conWG = 0
                 THEN /\ panicked' = TRUE
                      /\ conWG' = conWG - 1
                      /\ UNCHANGED << conns, calls >>
                 ELSE /\ mc = "free"
                      /\ conWG' = conWG - 1
                      /\ calls' = calls \o CallsOf("disconnect",
                                     DisconnectHooksOf(conns[i].class), i)
                      /\ conns' = [conns EXCEPT ![i].waiter = "done"]
                      /\ UNCHANGED panicked
  /\ UNCHANGED << bp, ob, config, budget, unlocked, stats, snapshot, found, mc, ret, sent, closed, nfails, serverVars, registryVars, hookVars, opWG, ntemps,
                  loops, closing >>

\* ------------------------------------------------------------------ Close
\* An accept loop is inside an iteration: it holds an accepted connection.
InIteration(t) ==
  loops[t].pc \in {"handshake", "handler", "gate", "admit", "append", "connects",
                   "blocked"}

\* A Close() call in progress.  (pc is where the call stands, snap the
\* registry its range loop iterates over and idx how many entries of it the
\* loop has closed; over notes that another Close() call was in progress when
\* this one was made.)
NewClose(pc, over) == [pc |-> pc, snap |-> << >>, idx |-> 0, over |-> over]

\* Some Close() call has not returned yet.
CloseInProgress == \E c \in 1..Len(closing) : closing[c].pc # "done"

\* Close(), up to its running check: nil at once when the server is not
\* running; otherwise the call goes on to clear the flags.  (closed counts the
\* calls, and notes whether a loop was inside an iteration when the flags
\* were cleared and whether a call that found the server running has
\* returned.)
CloseCall ==
  /\ ~panicked
  /\ mc = "free"
  /\ closed.calls < budget.closes
  /\ closed' = [closed EXCEPT !.calls = @ + 1]
  /\ IF ~IsRunning
       THEN /\ ret' = "nil"
            /\ closing' = Append(closing, NewClose("done", CloseInProgress))
       ELSE /\ closing' = Append(closing, NewClose("clear", CloseInProgress))
            /\ UNCHANGED ret
  /\ UNCHANGED << bp, ob, config, budget, unlocked, stats, snapshot, found, mc, sent, nfails, serverVars,
                  registryVars, hookVars, opWG, conWG, ntemps, loops, conns,
                  calls, panicked >>

\* c.runningClient = false; c.runningCluster = false, under the lock; the
\* call goes on to wait for the accept loops.
CloseClear(c) ==
  /\ ~panicked
  /\ closing[c].pc = "clear"
  /\ mc = "free"
  /\ runningClient' = FALSE
  /\ runningCluster' = FALSE
  /\ closing' = [closing EXCEPT ![c].pc = "wait"]
  /\ closed' = [closed EXCEPT !.busy = @ \/ \E t \in 1..Len(loops) : InIteration(t)]
  /\ UNCHANGED << bp, ob, config, budget, unlocked, stats, snapshot, found, mc, ret, sent, nfails, tcpClient, tcpCluster, listeners, backlog,
                  registryVars, hookVars, opWG, conWG, ntemps, loops, conns,
                  calls, panicked >>

\* The state of the listeners after l.Close() on handle l (nothing for nil).
CloseListener(ls, l) == IF l = NilListener THEN ls ELSE [ls EXCEPT ![l] = "closed"]

\* l.Close() fails on a listener that is closed already.
CloseFails(ls, l) == l # NilListener /\ ls[l] = "closed"

\* c.opWG.Wait() returns when the counter of the accept loops is zero.
WaitNotCounted == TRUE

WaitReturns == opWG = 0

\* c.opWG.Wait() returns; the call goes on to take the lock.
CloseWait(c) ==
  /\ ~panicked
  /\ closing[c].pc = "wait"
  /\ WaitReturns
  /\ closing' = [closing EXCEPT ![c].pc = "lock"]
  /\ UNCHANGED << bp, ob, config, budget, unlocked, stats, snapshot, found, mc, ret, sent, closed, nfails, serverVars,
                  registryVars, hookVars, opWG, conWG, ntemps, loops, conns,
                  calls, panicked >>

\* Both listeners are closed under the lock, whatever the counter of the
\* accept loops is by now; a close that fails unlocks and returns the error
\* at once.  failClient and failCluster are the outcomes of the two Close()
\* calls of the sockets.
CloseListeners(c, failClient, failCluster) ==
  /\ ~panicked
  /\ closing[c].pc = "lock"
  /\ mc = "free"
  /\ mc' = "free"
  /\ failClient => tcpClient # NilListener
  /\ failCluster => (tcpCluster # NilListener /\ ~failClient)
  /\ (failClient \/ failCluster) => nfails < budget.fails
  /\ nfails' = IF failClient \/ failCluster THEN nfails + 1 ELSE nfails
  /\ IF tcpClient # NilListener /\ (failClient \/ CloseFails(listeners, tcpClient))
       THEN /\ closing' = [closing EXCEPT ![c].pc = "done"]
            /\ ret' = "error"
            /\ closed' = [closed EXCEPT !.returned = TRUE]
            /\ UNCHANGED listeners
       ELSE LET ls == CloseListener(listeners, tcpClient) IN
            IF tcpCluster # NilListener /\ (failCluster \/ CloseFails(ls, tcpCluster))
              THEN /\ closing' = [closing EXCEPT ![c].pc = "done"]
                   /\ ret' = "error"
                   /\ closed' = [closed EXCEPT !.returned = TRUE]
                   /\ listeners' = ls
              ELSE /\ closing' = [closing EXCEPT ![c].pc = "clients"]
                   /\ listeners' = CloseListener(ls, tcpCluster)
                   /\ UNCHANGED << ret, closed >>
  /\ UNCHANGED << bp, ob, config, budget, unlocked, stats, snapshot, found, sent, runningClient, runningCluster, tcpClient,
                  tcpCluster, backlog, registryVars, hookVars, opWG, conWG,
                  ntemps, loops, conns, calls, panicked >>

\* How often provider i occurs in registry reg.
Occurrences(reg, i) == Cardinality({n \in 1..Len(reg) : reg[n] = i})

\* The registry a range loop of Close() call c iterates over: the slice as it
\* is when the loop is entered, read without the lock.
RangeOf(c, reg) == IF closing[c].idx = 0 THEN reg ELSE closing[c].snap

\* One iteration of for _, p := range reg { p.Close() }, after
\* c.mc.Unlock(): the registry is read without the lock, an error of
\* p.Close() is logged and the loop goes on, and Close() on the nil Provider
\* panics.  After the last entry (or at once for an empty registry) the call
\* goes on to nextpc.
CloseAll(c, reg, nextpc) ==
  LET r == RangeOf(c, reg)
      n == closing[c].idx + 1
  IN
  /\ IF r = << >>
       THEN /\ closing' = [closing EXCEPT ![c].pc = nextpc]
            /\ UNCHANGED << conns, panicked >>
       ELSE IF r[n] = NilProvider
         THEN /\ panicked' = TRUE
              /\ UNCHANGED << conns, closing >>
         ELSE /\ conns' = [conns EXCEPT ![r[n]].closes = @ + 1]
              /\ closing' =
                   IF n = Len(r)
                     THEN [closing EXCEPT ![c].pc = nextpc, ![c].idx = 0,
                                          ![c].snap = << >>]
                     ELSE [closing EXCEPT ![c].idx = n, ![c].snap = r]
              /\ UNCHANGED panicked
  /\ UNCHANGED << bp, ob, config, budget, stats, snapshot, found, mc, sent, nfails, serverVars, registryVars, hookVars, opWG, conWG, ntemps,
                  loops, calls >>

\* The loop over the clients.
CloseClients(c) ==
  /\ ~panicked
  /\ closing[c].pc = "clients"
  /\ CloseAll(c, clients, "clusters")
  /\ unlocked' = unlocked \cup {"clients"}
  /\ UNCHANGED << ret, closed >>

\* The loop over the clusters, then return nil.
CloseClusters(c) ==
  /\ ~panicked
  /\ closing[c].pc = "clusters"
  /\ CloseAll(c, clusters, "done")
  /\ unlocked' = unlocked \cup {"clusters"}
  /\ IF closing'[c].pc = "done"
       THEN /\ ret' = "nil"
            /\ closed' = [closed EXCEPT !.returned = TRUE]
       ELSE UNCHANGED << ret, closed >>

\* -------------------------------------------------------------- broadcasts
\* The SendMessage calls one broadcast makes over registry reg, in order;
\* fail is the position of the provider whose SendMessage returns an error
\* (0 when none does).  The error is logged and the loop goes on.
SendsUntilError(reg, fail) ==
  [n \in 1..(IF fail = 0 THEN Len(reg) ELSE fail) |-> [p |-> reg[n], err |-> (n = fail)]]

SendsOf(reg, fail) ==
  [n \in 1..Len(reg) |-> [p |-> reg[n], err |-> (n = fail)]]

\* The position of the first nil entry of reg, or Len(reg) + 1.
FirstNil(reg) ==
  IF Occurrences(reg, NilProvider) = 0 THEN Len(reg) + 1
  ELSE CHOOSE n \in 1..Len(reg) :
         reg[n] = NilProvider /\ \A m \in 1..(n - 1) : reg[m] # NilProvider

\* SendToClients / SendToClusters over registry reg, under the lock: the
\* trace line calls BaseInfo() on the entry first, which panics on the nil
\* Provider; otherwise every entry is sent the message and nil is returned.
\* The first statement is a call of the Log sink, which panics on the nil
\* interface.  A SendMessage that calls back into a locking operation never
\* returns.
\* (sent keeps the broadcasts; the msgs of a connection keep what the gate
\* sent.)
Broadcast(op, reg, fail) ==
  LET b == FirstAt(SubSeq(reg, 1, FirstNil(reg) - 1), budget.sendback) IN
  /\ ~panicked
  /\ mc = "free"
  /\ mc' = LockAfter(b > 0 /\ config.Log # "nil")
  /\ Len(sent) < budget.sends
  /\ fail < FirstNil(reg)
  /\ IF config.Log = "nil"
       THEN /\ fail = 0
            /\ panicked' = TRUE
            /\ UNCHANGED << sent, ret >>
       ELSE IF b > 0
       THEN /\ fail < b
            /\ sent' = Append(sent, [op |-> op, ret |-> "none",
                          to |-> SendsOf(SubSeq(reg, 1, b), fail)])
            /\ UNCHANGED << ret, panicked >>
       ELSE IF FirstNil(reg) <= Len(reg)
       THEN /\ panicked' = TRUE
            /\ sent' = Append(sent, [op |-> op, ret |-> "none",
                          to |-> SendsOf(SubSeq(reg, 1, FirstNil(reg) - 1), fail)])
            /\ UNCHANGED ret
       ELSE /\ sent' = Append(sent, [op |-> op, ret |-> "nil",
                          to |-> SendsOf(reg, fail)])
            /\ ret' = "nil"
            /\ UNCHANGED panicked
  /\ UNCHANGED << bp, ob, config, budget, unlocked, stats, snapshot, found, closed, nfails, serverVars, registryVars, hookVars,
                  opWG, conWG, ntemps, loops, conns, calls, closing >>

SendToClients(fail) == Broadcast("SendToClients", clients, fail)

SendToClusters(fail) == Broadcast("SendToClusters", clusters, fail)

\* TCPConn.Clients / TCPConn.Clusters: the BaseInfo of every registered
\* provider, in registry order (BaseProvider.BaseInfo: the ConnectionInfo the
\* accept loop built from the remote address).
BaseInfo(i) == [Addr |-> "peer", Port |-> i]

InfoListNewestFirst(reg) == [n \in 1..Len(reg) |-> BaseInfo(reg[Len(reg) + 1 - n])]

InfoList(reg) == [n \in 1..Len(reg) |-> BaseInfo(reg[n])]

\* Clients() / Clusters(): a new list is built under the lock from the
\* BaseInfo() of every entry; BaseInfo() on the nil Provider panics.
Query(op, reg) ==
  /\ ~panicked
  /\ mc = "free"
  /\ mc' = "free"
  /\ IF Occurrences(reg, NilProvider) > 0
       THEN /\ panicked' = TRUE
            /\ UNCHANGED snapshot
       ELSE /\ snapshot' = [op |-> op, list |-> InfoList(reg), edited |-> FALSE]
            /\ UNCHANGED panicked
  /\ UNCHANGED << bp, ob, config, budget, unlocked, stats, found, ret, sent, closed, nfails,
                  serverVars, registryVars, hookVars, opWG, conWG, ntemps, loops,
                  conns, calls, closing >>

Clients == Query("Clients", clients)

Clusters == Query("Clusters", clusters)

\* The caller changes the list it was returned (here: it cuts off the first
\* record); the list is the caller's own slice.
EditSnapshot ==
  /\ ~panicked
  /\ snapshot.list # << >>
  /\ snapshot' = [snapshot EXCEPT !.list = Tail(@), !.edited = TRUE]
  /\ UNCHANGED << bp, ob, config, budget, unlocked, stats, found, mc, ret, sent, closed, nfails,
                  serverVars, registryVars, hookVars, opWG, conWG, ntemps, loops,
                  conns, calls, closing, panicked >>

\* SearchableInfo.HasAddr: the loop variable is the result; the loop breaks
\* at the first record whose address or whose port is the one looked for.
RECURSIVE Scan(_, _, _, _)
Scan(s, n, addr, port) ==
  IF s[n].Addr = addr \/ s[n].Port = port THEN s[n]
  ELSE IF n = Len(s) THEN s[n]
  ELSE Scan(s, n + 1, addr, port)

HasAddr(s, addr, port) == IF s = << >> THEN ZeroInfo ELSE Scan(s, 1, addr, port)

\* The caller looks a peer up in the list it was returned.
HasAddrCall(addr, port) ==
  /\ ~panicked
  /\ found' = [addr |-> addr, port |-> port, info |-> HasAddr(snapshot.list, addr, port)]
  /\ UNCHANGED << bp, ob, config, budget, unlocked, stats, snapshot, mc, ret, sent, closed, nfails,
                  serverVars, registryVars, hookVars, opWG, conWG, ntemps, loops,
                  conns, calls, closing, panicked >>

\* ------------------------------------------------------------------- Stat
StatOps ==
  {"IncrementInMsg", "IncrementOutMsg", "IncrementRequest", "IncrementReads",
   "IncrementWrites"}

\* The counter an increment operation adds to, and by how much.
CounterOf(op) ==
  CASE op = "IncrementInMsg" -> "InMsg"
    [] op = "IncrementOutMsg" -> "OutMsg"
    [] op = "IncrementRequest" -> "Requests"
    [] op = "IncrementReads" -> "InBytes"
    [] op = "IncrementWrites" -> "OutBytes"

DeltaOf(op, size) == IF op \in {"IncrementReads", "IncrementWrites"} THEN size ELSE 1

\* atomic.AddInt64(&stat.<counter>, delta) on the Stat value st.
AddInt64(st, op, size) == [st EXCEPT ![CounterOf(op)] = @ + DeltaOf(op, size)]

\* What a call of an increment method leaves in the Stat it was called on:
\* the methods have value receivers (func (stat Stat) ...), so the atomic add
\* is made on the method's own copy and the Stat of the caller is unchanged.
Increment(st, op, size) == st

\* A provider calls an increment operation of the StatProvider it was handed
\* (stat = c.Stat in the accept loop).  (stats.calls sums what was asked for.)
StatCall(op, size) ==
  /\ ~panicked
  /\ stats.calls[CounterOf(op)] < MaxIncrements
  /\ stats' = [server |-> Increment(stats.server, op, size),
               calls |-> AddInt64(stats.calls, op, size)]
  /\ UNCHANGED << bp, ob, config, budget, unlocked, snapshot, found, mc, ret, sent, closed, nfails,
                  serverVars, registryVars, hookVars, opWG, conWG, ntemps, loops,
                  conns, calls, closing, panicked >>

\* The steps of the program: the calls a user of the server makes, the peers
\* that connect, and each accept-loop goroutine from its start to the loop
\* test and, the test having failed, to its return.
Next ==
  \/ OnClientConnect
  \/ OnClientDisconnect
  \/ OnClusterConnect
  \/ OnClusterDisconnect
  \/ \E bound \in BOOLEAN : ServeClients(bound)
  \/ \E bound \in BOOLEAN : ServeClusters(bound)
  \/ \E t \in 1..Len(loops) : LoopStart(t)
  \/ \E t \in 1..Len(loops) : LoopCheck(t)
  \/ \E t \in 1..Len(loops) : LoopExit(t)
  \/ \E l \in 1..Len(listeners) : Connect(l)
  \/ \E fail \in 0..Len(clients) : SendToClients(fail)
  \/ \E fail \in 0..Len(clusters) : SendToClusters(fail)
  \/ CloseCall

Spec == Init /\ [][Next]_vars

\* The steps behind the loop test of the accept loops and behind the running
\* test of Close(): none of them is enabled in a run from Init.
LoopBody ==
  \/ \E t \in 1..Len(loops) : LoopCall(t)
  \/ \E t \in 1..Len(loops), out \in {"conn", "temporary", "error"} : LoopAccept(t, out)
  \/ \E t \in 1..Len(loops), ok \in BOOLEAN : LoopHandshake(t, ok)
  \/ \E i \in 1..Len(conns) : TLSTimeout(i)
  \/ \E t \in 1..Len(loops), res \in HandlerResults : LoopHandler(t, res)
  \/ \E t \in 1..Len(loops), verdict \in BOOLEAN : LoopGate(t, verdict)
  \/ \E t \in 1..Len(loops) : LoopSpawn(t)
  \/ \E t \in 1..Len(loops) : LoopAdmit(t)
  \/ \E t \in 1..Len(loops) : LoopConnects(t)
  \/ \E i \in 1..Len(conns) : CloseNotify(i)
  \/ \E i \in 1..Len(conns) : Waiter(i)
  \/ \E c \in 1..Len(closing) : CloseClear(c)
  \/ \E c \in 1..Len(closing) : CloseWait(c)
  \/ \E c \in 1..Len(closing), failClient \in BOOLEAN, failCluster \in BOOLEAN :
       CloseListeners(c, failClient, failCluster)
  \/ \E c \in 1..Len(closing) : CloseClients(c)
  \/ \E c \in 1..Len(closing) : CloseClusters(c)

LoopNext == Next \/ LoopBody

LoopSpec == LoopInit /\ [][LoopNext]_vars

\* The accept loop under a run of temporary accept errors, from the states
\* of LoopInit: one class is served without authentication, one peer
\* connects, and up to MaxBackoff accepts fail temporarily.
BackoffInit ==
  /\ config = InitLogAndTrace(MakeConfig(FALSE, FALSE, FALSE, << TwoUsers, OneUser >>))
  /\ budget = Budget(1, 0, MaxBackoff, 0, 0)
  /\ FlagsAnyWay
  /\ ZeroServer

BackoffNext ==
  \/ ServeClients(TRUE)
  \/ ServeClusters(TRUE)
  \/ \E t \in 1..Len(loops) : LoopStart(t)
  \/ \E t \in 1..Len(loops) : LoopCheck(t)
  \/ \E t \in 1..Len(loops) : LoopExit(t)
  \/ \E l \in 1..Len(listeners) : Connect(l)
  \/ \E t \in 1..Len(loops) : LoopCall(t)
  \/ \E t \in 1..Len(loops), out \in {"conn", "temporary", "error"} : LoopAccept(t, out)
  \/ \E t \in 1..Len(loops), res \in HandlerResults : LoopHandler(t, res)
  \/ \E t \in 1..Len(loops) : LoopGate(t, TRUE)
  \/ \E t \in 1..Len(loops) : LoopSpawn(t)
  \/ \E t \in 1..Len(loops) : LoopAdmit(t)
  \/ \E t \in 1..Len(loops) : LoopConnects(t)
  \/ \E i \in 1..Len(conns) : CloseNotify(i)
  \/ \E i \in 1..Len(conns) : Waiter(i)

BackoffSpec == BackoffInit /\ [][BackoffNext]_vars

\* The queries on a server without authentication, from the states of
\* LoopInit: one class is served, up to MaxConns peers connect, and a caller
\* takes snapshots of the registries, edits them and looks peers up in them.
QueryInit ==
  /\ config = InitLogAndTrace(MakeConfig(FALSE, FALSE, FALSE, << TwoUsers, OneUser >>))
  /\ budget = Budget(MaxConns, 0, 0, 0, 0)
  /\ FlagsAnyWay
  /\ ZeroServer

QueryNext ==
  \/ ServeClients(TRUE)
  \/ ServeClusters(TRUE)
  \/ \E t \in 1..Len(loops) : LoopStart(t)
  \/ \E t \in 1..Len(loops) : LoopCheck(t)
  \/ \E t \in 1..Len(loops) : LoopExit(t)
  \/ \E l \in 1..Len(listeners) : Connect(l)
  \/ \E t \in 1..Len(loops) : LoopCall(t)
  \/ \E t \in 1..Len(loops) : LoopAccept(t, "conn")
  \/ \E t \in 1..Len(loops), res \in HandlerResults : LoopHandler(t, res)
  \/ \E t \in 1..Len(loops) : LoopGate(t, TRUE)
  \/ \E t \in 1..Len(loops) : LoopSpawn(t)
  \/ \E t \in 1..Len(loops) : LoopAdmit(t)
  \/ \E t \in 1..Len(loops) : LoopConnects(t)
  \/ \E i \in 1..Len(conns) : CloseNotify(i)
  \/ \E i \in 1..Len(conns) : Waiter(i)
  \/ Clients
  \/ Clusters
  \/ EditSnapshot
  \/ \E addr \in {"peer", "other"}, port \in 0..(MaxConns + 1) : HasAddrCall(addr, port)

QuerySpec == QueryInit /\ [][QueryNext]_vars

\* The SearchableInfo lists a caller can build: up to MaxSize records over
\* two addresses and the ports 1..MaxSize.
Infos == [Addr : {"peer", "other"}, Port : 1..MaxSize]

InfoLists == UNION { [1..n -> Infos] : n \in 0..MaxSize }

\* The caller builds a SearchableInfo of its own: the type is a slice of
\* BaseInfo, so HasAddr can be called on it without any server.
MakeList(s) ==
  /\ ~panicked
  /\ snapshot.op = "none"
  /\ snapshot' = [op |-> "literal", list |-> s, edited |-> FALSE]
  /\ UNCHANGED << bp, ob, config, budget, unlocked, stats, found, mc, ret, sent, closed, nfails,
                  serverVars, registryVars, hookVars, opWG, conWG, ntemps, loops,
                  conns, calls, closing, panicked >>

SearchInit ==
  /\ config = InitLogAndTrace(MakeConfig(FALSE, FALSE, FALSE, << TwoUsers, OneUser >>))
  /\ budget = Budget(1, 0, 0, 0, 0)
  /\ runningClient = FALSE
  /\ runningCluster = FALSE
  /\ ZeroServer

SearchNext ==
  \/ \E s \in InfoLists : MakeList(s)
  \/ \E addr \in {"peer", "other"}, port \in 0..(MaxSize + 1) : HasAddrCall(addr, port)

SearchSpec == SearchInit /\ [][SearchNext]_vars

\* The Stat counters of a server whose providers call the increment
\* operations.
StatInit ==
  /\ config = InitLogAndTrace(MakeConfig(FALSE, FALSE, FALSE, << TwoUsers, OneUser >>))
  /\ budget = Budget(1, 0, 0, 0, 0)
  /\ runningClient = FALSE
  /\ runningCluster = FALSE
  /\ ZeroServer

StatNext == \E op \in StatOps, size \in 1..MaxSize : StatCall(op, size)

StatSpec == StatInit /\ [][StatNext]_vars

\* Hooks and providers that call back into the server, from the states of
\* LoopInit: up to MaxHooks hooks are registered, one peer connects, up to
\* MaxSends broadcasts are made, and one hook, or the provider's SendMessage,
\* or neither calls a locking operation of the server.
HookInit ==
  /\ config = InitLogAndTrace(MakeConfig(FALSE, FALSE, FALSE, << TwoUsers, OneUser >>))
  /\ budget \in
       { [Budget(1, MaxHooks, 0, 0, MaxSends) EXCEPT !.hookback = h] : h \in 0..MaxHooks }
       \cup { [Budget(1, MaxHooks, 0, 0, MaxSends) EXCEPT !.sendback = 1] }
  /\ FlagsAnyWay
  /\ ZeroServer

HookNext ==
  \/ OnClientConnect
  \/ OnClientDisconnect
  \/ OnClusterConnect
  \/ OnClusterDisconnect
  \/ ServeClients(TRUE)
  \/ ServeClusters(TRUE)
  \/ \E t \in 1..Len(loops) : LoopStart(t)
  \/ \E t \in 1..Len(loops) : LoopCheck(t)
  \/ \E t \in 1..Len(loops) : LoopExit(t)
  \/ \E l \in 1..Len(listeners) : Connect(l)
  \/ \E t \in 1..Len(loops) : LoopCall(t)
  \/ \E t \in 1..Len(loops) : LoopAccept(t, "conn")
  \/ \E t \in 1..Len(loops) : LoopHandler(t, [prov |-> "plain", cred |-> Cred("alice", "secret")])
  \/ \E t \in 1..Len(loops) : LoopGate(t, TRUE)
  \/ \E t \in 1..Len(loops) : LoopSpawn(t)
  \/ \E t \in 1..Len(loops) : LoopAdmit(t)
  \/ \E t \in 1..Len(loops) : LoopConnects(t)
  \/ \E i \in 1..Len(conns) : CloseNotify(i)
  \/ \E i \in 1..Len(conns) : Waiter(i)
  \/ SendToClients(0)
  \/ SendToClusters(0)
  \/ Clients
  \/ Clusters
  \/ CloseCall
  \/ \E c \in 1..Len(closing) : CloseClear(c)
  \/ \E c \in 1..Len(closing) : CloseWait(c)
  \/ \E c \in 1..Len(closing) : CloseListeners(c, FALSE, FALSE)
  \/ \E c \in 1..Len(closing) : CloseClients(c)
  \/ \E c \in 1..Len(closing) : CloseClusters(c)

HookSpec == HookInit /\ [][HookNext]_vars

\* ---------------------------------------------------------- BaseProvider
\* The variables of the TCP server, which the BaseProvider and the Observable
\* do not touch.
tcpVars ==
  << config, budget, unlocked, stats, snapshot, found, mc, ret, sent, closed,
     nfails, serverVars, registryVars, hookVars, opWG, conWG, ntemps, loops,
     conns, calls, closing, panicked >>

\* BaseProvider.Init: a new Closer channel, running = true.
ProviderInit ==
  /\ ~bp.panicked
  /\ Len(bp.chans) < MaxInits
  /\ bp' = [bp EXCEPT !.chans = Append(@, "open"), !.Closer = Len(bp.chans) + 1,
                      !.running = TRUE]
  /\ UNCHANGED << ob, tcpVars >>

\* BaseProvider.ReadLoop is called (in a goroutine of its own).
ReadLoop ==
  /\ ~bp.panicked
  /\ Len(bp.tasks) < MaxReadLoops
  /\ bp' = [bp EXCEPT !.tasks = Append(@, "loop")]
  /\ UNCHANGED << ob, tcpVars >>

\* What the unlocked read of bp.running in `for bp.running` may see: the
\* value, or, after a Close() the read is not ordered with, still true.
RunningSeen ==
  IF bp.running THEN {TRUE}
  ELSE IF bp.ncloses > 0 THEN {TRUE, FALSE}
  ELSE {FALSE}

\* One test of the loop condition by ReadLoop call t: loopFn(bp) and again,
\* or out of the loop.
ReadLoopTest(t, seen) ==
  /\ ~bp.panicked
  /\ bp.tasks[t] = "loop"
  /\ seen \in RunningSeen
  /\ bp' = [bp EXCEPT !.tasks[t] = IF seen THEN "loop" ELSE "exit"]
  /\ UNCHANGED << ob, tcpVars >>

\* close(bp.Closer) after the loop: a panic on the nil channel and on a
\* channel that is closed already.
ReadLoopEnd(t) ==
  /\ ~bp.panicked
  /\ bp.tasks[t] = "exit"
  /\ IF bp.Closer = 0 \/ bp.chans[bp.Closer] = "closed"
       THEN bp' = [bp EXCEPT !.panicked = TRUE]
       ELSE bp' = [bp EXCEPT !.chans[bp.Closer] = "closed", !.tasks[t] = "done"]
  /\ UNCHANGED << ob, tcpVars >>

\* BaseProvider.Close: running = false under the lock, nothing else.
ProviderClose ==
  /\ ~bp.panicked
  /\ bp.ncloses < MaxProviderCloses
  /\ bp' = [bp EXCEPT !.running = FALSE, !.ncloses = @ + 1]
  /\ UNCHANGED << ob, tcpVars >>

\* BaseProvider.CloseNotify: the current Closer channel is returned.
ProviderCloseNotify ==
  /\ ~bp.panicked
  /\ bp.got # bp.Closer
  /\ bp' = [bp EXCEPT !.got = bp.Closer]
  /\ UNCHANGED << ob, tcpVars >>

\* A BaseProvider under any calls of Init, ReadLoop, Close and CloseNotify;
\* a ReadLoop that was called keeps running.
ProviderStart ==
  /\ config = InitLogAndTrace(MakeConfig(FALSE, FALSE, FALSE, << TwoUsers, OneUser >>))
  /\ budget = Budget(1, 0, 0, 0, 0)
  /\ runningClient = FALSE
  /\ runningCluster = FALSE
  /\ ZeroServer

ProviderNext ==
  \/ ProviderInit
  \/ ReadLoop
  \/ \E t \in 1..Len(bp.tasks), seen \in BOOLEAN : ReadLoopTest(t, seen)
  \/ \E t \in 1..Len(bp.tasks) : ReadLoopEnd(t)
  \/ ProviderClose
  \/ ProviderCloseNotify

ProviderSpec ==
  /\ ProviderStart
  /\ [][ProviderNext]_vars
  /\ WF_vars(\E t \in 1..Len(bp.tasks), seen \in BOOLEAN : ReadLoopTest(t, seen))
  /\ WF_vars(\E t \in 1..Len(bp.tasks) : ReadLoopEnd(t))

\* ------------------------------------------------------------- Observable
\* The subscriptions of list q whose observer is not nil.
LiveIn(q) == {n \in 1..Len(ob.made) :
                 ob.made[n].observer # 0 /\ \E m \in 1..Len(q) : q[m] = n}

\* The observers subscribed to the source whose subscription has not ended.
Live == LiveIn(ob.subs)

\* sub.observer.Next / sub.observer.Done with the behaviour's result for
\* value val, on every subscription in to.
Delivered(got, to, kind, val) ==
  [n \in 1..Len(got) |->
     IF n \in to THEN Append(got[n], [kind |-> kind, val |-> val]) ELSE got[n]]

\* Observable.Subscribe: a new Subscription is appended to in.subs.
Subscribe ==
  /\ ~ob.panicked
  /\ Len(ob.made) < MaxSubs
  /\ ob' = [ob EXCEPT
              !.made = Append(@, [observer |-> Len(ob.made) + 1,
                                  from |-> ob.nsent, till |-> -1,
                                  told |-> {}]),
              !.subs = Append(@, Len(ob.made) + 1),
              !.got = Append(@, << >>)]
  /\ UNCHANGED << bp, tcpVars >>

\* sub.observer = nil on subscription n.  (till and told keep when it was
\* ended first.)
Ended(made, n) ==
  [made EXCEPT ![n].observer = 0,
               ![n].till = IF made[n].till >= 0 THEN made[n].till ELSE ob.nsent,
               ![n].told = IF made[n].till >= 0 THEN made[n].told ELSE ob.returned]

\* Subscription.End: sub.observer = nil.
SubscriptionEnd(n) ==
  /\ ~ob.panicked
  /\ ob.made[n].observer # 0
  /\ ob' = [ob EXCEPT !.made = Ended(@, n)]
  /\ UNCHANGED << bp, tcpVars >>

\* IndefiniteObserver.End is called: no finalizer is registered, and the
\* range loop takes in.subs as it is.
ObservableEnd ==
  /\ ~ob.panicked
  /\ ob.nends < MaxEnds
  /\ ob' = [ob EXCEPT !.nends = @ + 1,
                      !.enders = @ \cup {[id |-> ob.nends + 1, snap |-> ob.subs,
                                          idx |-> 1, pc |-> "test"]}]
  /\ UNCHANGED << bp, tcpVars >>

\* One test of the range loop of End(): a subscription whose observer is nil
\* is passed over; after the last one the deferred function sets in.subs to
\* nil and the call returns.
EndTest(e) ==
  /\ ~ob.panicked
  /\ e.pc = "test"
  /\ IF e.idx > Len(e.snap)
       THEN ob' = [ob EXCEPT !.subs = << >>, !.enders = @ \ {e}]
       ELSE IF ob.made[e.snap[e.idx]].observer = 0
         THEN ob' = [ob EXCEPT !.enders = (@ \ {e}) \cup {[e EXCEPT !.idx = @ + 1]}]
         ELSE ob' = [ob EXCEPT !.enders = (@ \ {e}) \cup {[e EXCEPT !.pc = "end"]}]
  /\ UNCHANGED << bp, tcpVars >>

\* ... and sub.End() on the subscription that passed the test.
EndSub(e) ==
  /\ ~ob.panicked
  /\ e.pc = "end"
  /\ ob' = [ob EXCEPT !.made = Ended(@, e.snap[e.idx]),
                      !.enders = (@ \ {e}) \cup {[e EXCEPT !.idx = @ + 1, !.pc = "test"]}]
  /\ UNCHANGED << bp, tcpVars >>

\* IndefiniteObserver.Next / Done is called on the source with the next
\* value.  An asynchronous observable starts a goroutine and returns; a
\* synchronous one goes on in the caller's goroutine.  Either way the
\* behaviour is run first and the range loop over in.subs comes after it.
\* (pending holds the deliveries under way: the value, the position in the
\* loop and the list the loop ranges over.)
Send(kind) ==
  /\ ~ob.panicked
  /\ ob.nsent < (IF ob.doAsync THEN MaxAsync ELSE MaxVals)
  /\ ~ob.doAsync => Cardinality(ob.pending) < MaxSync
  /\ ob' = [ob EXCEPT !.nsent = @ + 1,
                      !.returned = IF ob.doAsync THEN @ \cup {ob.nsent + 1} ELSE @,
                      !.pending = @ \cup {[kind |-> kind, val |-> ob.nsent + 1,
                                           pc |-> "start", snap |-> << >>,
                                           idx |-> 1]}]
  /\ UNCHANGED << bp, tcpVars >>

\* The behaviour has been run and the range loop is entered: it takes
\* in.subs as it is.
Range(g) ==
  /\ ~ob.panicked
  /\ g.pc = "start"
  /\ ob' = [ob EXCEPT !.pending = (@ \ {g}) \cup {[g EXCEPT !.pc = "test", !.snap = ob.subs]}]
  /\ UNCHANGED << bp, tcpVars >>

\* One test of the loop, sub.observer == nil: a subscription whose observer
\* is nil is passed over; after the last one the loop ends (the goroutine
\* ends, or the synchronous call returns).
Test(g) ==
  /\ ~ob.panicked
  /\ g.pc = "test"
  /\ IF g.idx > Len(g.snap)
       THEN ob' = [ob EXCEPT !.pending = @ \ {g}, !.returned = @ \cup {g.val}]
       ELSE IF ob.made[g.snap[g.idx]].observer = 0
         THEN ob' = [ob EXCEPT !.pending = (@ \ {g}) \cup {[g EXCEPT !.idx = @ + 1]}]
         ELSE ob' = [ob EXCEPT !.pending = (@ \ {g}) \cup {[g EXCEPT !.pc = "call"]}]
  /\ UNCHANGED << bp, tcpVars >>

\* ... and the call sub.observer.Next / Done on the subscription that passed
\* the test.  The field is read again, without synchronisation: if End() has
\* set it to nil since, the call either still sees the observer (stale) or
\* is a call on the nil interface, which panics.
Call(g, stale) ==
  LET n == g.snap[g.idx] IN
  /\ ~ob.panicked
  /\ g.pc = "call"
  /\ ob.made[n].observer # 0 => stale
  /\ IF stale
       THEN ob' = [ob EXCEPT
                     !.pending = (@ \ {g}) \cup {[g EXCEPT !.idx = @ + 1, !.pc = "test"]},
                     !.got = Delivered(@, {n}, g.kind, g.val)]
       ELSE ob' = [ob EXCEPT !.panicked = TRUE]
  /\ UNCHANGED << bp, tcpVars >>

\* The three steps in the goroutine of an asynchronous Next / Done ...
AsyncRange(g) == ob.doAsync /\ Range(g)

AsyncTest(g) == ob.doAsync /\ Test(g)

AsyncCall(g, stale) == ob.doAsync /\ Call(g, stale)

\* ... and in a synchronous Next / Done, in the goroutine of the caller.
\* What the observers, other goroutines and the caller's own handlers do
\* to the subscriptions meanwhile comes in between these steps.
SyncRange(g) == ~ob.doAsync /\ Range(g)

SyncTest(g) == ~ob.doAsync /\ Test(g)

SyncCall(g, stale) == ~ob.doAsync /\ Call(g, stale)

\* A source observable, synchronous or asynchronous, with up to MaxSubs
\* subscriptions, up to MaxVals values sent (MaxAsync through an asynchronous
\* source, and up to MaxSync deliveries of a synchronous source under way at
\* once) and up to MaxEnds End() calls.
ObservableStart ==
  /\ config = InitLogAndTrace(MakeConfig(FALSE, FALSE, FALSE, << TwoUsers, OneUser >>))
  /\ budget = Budget(1, 0, 0, 0, 0)
  /\ runningClient = FALSE
  /\ runningCluster = FALSE
  /\ ZeroFields
  /\ ob \in {NewObservable(async) : async \in BOOLEAN}

ObservableSteps ==
  \/ Subscribe
  \/ \E n \in 1..Len(ob.made) : SubscriptionEnd(n)
  \/ ObservableEnd
  \/ \E e \in ob.enders : EndTest(e)
  \/ \E e \in ob.enders : EndSub(e)
  \/ \E kind \in {"next", "done"} : Send(kind)
  \/ \E g \in ob.pending : AsyncRange(g)
  \/ \E g \in ob.pending : AsyncTest(g)
  \/ \E g \in ob.pending, stale \in BOOLEAN : AsyncCall(g, stale)
  \/ \E g \in ob.pending : SyncRange(g)
  \/ \E g \in ob.pending : SyncTest(g)
  \/ \E g \in ob.pending, stale \in BOOLEAN : SyncCall(g, stale)

ObservableSpec == ObservableStart /\ [][ObservableSteps]_vars

\* ================================================================ claims
\* The registry of a class, its static credential list, and exact equality of
\* a credential with an entry of a list, as the specification states them.
OwnRegistry(k) == IF k = "client" THEN clients ELSE clusters

OwnList(k) ==
  IF k = "client" THEN config.ClientCrendentails ELSE config.ClusterCredentials

OwnConnectHooks(k) == IF k = "client" THEN onConnects ELSE onClusterConnects

ExactEntry(list, cd) == \E n \in 1..Len(list) : list[n] = cd

Registered(i) == Occurrences(clients, i) + Occurrences(clusters, i)

\* The accept loop is past the gate and the admission of connection i.
PastAdmission(i) ==
  ~ \E t \in 1..Len(loops) :
       loops[t].conn = i
       /\ loops[t].pc \in {"handshake", "handler", "gate", "admit", "append"}

Providers == {i \in 1..Len(conns) : conns[i].prov \in {"plain", "auth"}}

\* C1: every Provider is in at most one of the two registries, and at most
\* once in it.
C1_AtMostOnce == \A i \in Providers : Registered(i) <= 1

\* C1 witness: two providers are registered, one in each registry.
C1_Witness ==
  \E i, j \in Providers :
     Occurrences(clients, i) = 1 /\ Occurrences(clusters, j) = 1

\* C2: a ServeClients / ServeClusters call that binds its socket and starts
\* its accept loop leaves the server marked running.
C2_RunningAfterServe == [][Len(loops') > Len(loops) => IsRunning']_vars

\* C3: authentication and TLS off, the client accept loop was started, one
\* client connected and no Close was called: once the loop has nothing left to
\* do, Clients() is exactly the BaseInfo of that connection.
C3_OneClientListed ==
  ( /\ ~config.Authenticate /\ ~config.UseTLS /\ ~panicked
    /\ Len(loops) = 1 /\ loops[1].class = "client" /\ loops[1].pc = "done"
    /\ listeners[1] = "open" /\ closing = << >>
    /\ Len(conns) + Sum(backlog) = 1
    /\ \A i \in 1..Len(conns) : conns[i].prov # "nil" )
  => InfoList(clients) = << BaseInfo(1) >>

\* C4: with authentication off, every provider the handler constructed is in
\* the registry of the class whose listener accepted it once the loop is past
\* the admission, whatever its capability and credentials.
C4_AdmittedWhenAuthOff ==
  ~config.Authenticate =>
    \A i \in Providers :
       PastAdmission(i) => Occurrences(OwnRegistry(conns[i].class), i) = 1

\* C4 witness: authentication is off (and marked mandatory), and a provider
\* reporting credentials that no static list holds is registered.
C4_Witness ==
  /\ ~config.Authenticate /\ config.MustAuthenticate
  /\ \E i \in Providers :
       /\ conns[i].prov = "auth" /\ conns[i].cred = Cred("alice", "wrong")
       /\ PastAdmission(i)
       /\ Occurrences(OwnRegistry(conns[i].class), i) = 1

\* C5: with authentication on and mandatory, a provider without the ClientAuth
\* capability is in no registry, is passed to no hook, and once the gate has
\* run it was sent the rejection message and closed.
C5_NoCapabilityRejected ==
  (config.Authenticate /\ config.MustAuthenticate) =>
    \A i \in Providers :
       conns[i].prov = "plain" =>
         /\ Registered(i) = 0
         /\ \A n \in 1..Len(calls) : calls[n].p # i
         /\ PastAdmission(i) =>
              /\ conns[i].msgs =
                   << "Error: Provider has no authentication. Authentication needed" >>
              /\ conns[i].closes = 1

\* C5 witness: such a provider went through the gate while a connect hook of
\* its class was registered.
C5_Witness ==
  /\ config.Authenticate /\ config.MustAuthenticate
  /\ \E i \in Providers :
       /\ conns[i].prov = "plain" /\ PastAdmission(i)
       /\ conns[i].closes = 1
       /\ OwnConnectHooks(conns[i].class) # << >>

\* C6: with authentication on, a provider whose credentials equal an entry of
\* the static list of its class and which the class authenticator rejected is
\* registered and was sent no rejection.
C6_StaticMatchAdmits ==
  config.Authenticate =>
    \A i \in Providers :
       ( /\ conns[i].prov = "auth" /\ conns[i].verdict = "reject"
         /\ ExactEntry(OwnList(conns[i].class), conns[i].cred)
         /\ PastAdmission(i) )
       => (Registered(i) = 1 /\ conns[i].msgs = << >>)

\* C6 witness: a cluster peer rejected by the authenticator matched the second
\* entry of the cluster list and is registered.
C6_Witness ==
  /\ config.Authenticate /\ config.ClusterCredentials = TwoUsers
  /\ \E i \in Providers :
       /\ conns[i].class = "cluster" /\ conns[i].verdict = "reject"
       /\ conns[i].cred = Cred("alice", "secret")
       /\ PastAdmission(i) /\ Registered(i) = 1

\* C7: with authentication on, a provider that the class authenticator
\* rejected and whose credentials differ from every entry of the static list
\* of its class was sent the rejection message, had Close invoked, and is in
\* no registry.
C7_BothRejectCloses ==
  config.Authenticate =>
    \A i \in Providers :
       ( /\ conns[i].prov = "auth" /\ conns[i].verdict = "reject"
         /\ ~ExactEntry(OwnList(conns[i].class), conns[i].cred)
         /\ PastAdmission(i) )
       => /\ conns[i].msgs = << "Error: Authentication failed" >>
          /\ conns[i].closes = 1
          /\ Registered(i) = 0

\* C7 witness: the list holds alice/secret, and a client reporting alice/wrong
\* was rejected and closed.
C7_Witness ==
  /\ config.Authenticate /\ config.ClientCrendentails = OneUser
  /\ \E i \in Providers :
       /\ conns[i].class = "client" /\ conns[i].verdict = "reject"
       /\ conns[i].cred = Cred("alice", "wrong")
       /\ PastAdmission(i) /\ conns[i].closes = 1 /\ Registered(i) = 0

\* The registry a broadcast iterates over.
RegistryOfSend(op) == IF op = "SendToClients" THEN clients ELSE clusters

\* C13: a broadcast over a registry of N providers calls SendMessage on all
\* N of them, whichever of them answers with an error, and returns nil.
C13_BroadcastReachesAll ==
  [][ Len(sent') > Len(sent) =>
        LET b == sent'[Len(sent')]
            reg == RegistryOfSend(b.op)
        IN Occurrences(reg, NilProvider) = 0 =>
             /\ b.ret = "nil" /\ ret' = "nil"
             /\ Len(b.to) = Len(reg)
             /\ \A n \in 1..Len(reg) : b.to[n].p = reg[n] ]_vars

\* C13 witness: a broadcast returned nil after the first of its two
\* recipients answered with an error and the second was still sent to.
C13_Witness ==
  \E m \in 1..Len(sent) :
     /\ sent[m].ret = "nil" /\ Len(sent[m].to) = 2
     /\ sent[m].to[1].err /\ ~sent[m].to[2].err

\* C15: once a Close() of a running server has returned, no step inserts a
\* provider into a registry.
C15_NoAdmissionAfterClose ==
  [][ closed.returned => (clients' = clients /\ clusters' = clusters) ]_vars

\* C15 witness: Close() was called while an accept loop was inside an
\* iteration, it has returned, and the connection of that iteration went
\* through the loop to its end.
C15_Witness ==
  /\ closed.returned /\ closed.busy /\ ~CloseInProgress
  /\ \E t \in 1..Len(loops) : loops[t].pc = "done" /\ loops[t].conn > 0

\* No Close() call was made while another one was in progress.
CloseCallsInTurn == \A c \in 1..Len(closing) : ~closing[c].over

\* C18: a Close() call that finds the server not running returns nil at once
\* and leaves flags, listeners, registries and providers as they are; a
\* Close() call made after a Close() of the running server has returned is
\* such a call; and as long as the Close() calls are made one after the
\* other, no provider is closed twice and no Close() gets to close a listener
\* that is closed already.
C18_CloseIdleNoOp ==
  /\ [][ (CloseCall /\ ~(runningClient \/ runningCluster)) =>
           /\ ret' = "nil"
           /\ closing'[Len(closing')].pc = "done"
           /\ UNCHANGED << runningClient, runningCluster, tcpClient, tcpCluster,
                           listeners, clients, clusters, conns >> ]_vars
  /\ [][ (CloseCall /\ closed.returned) => closing'[Len(closing')].pc = "done" ]_vars
  /\ [](CloseCallsInTurn =>
          /\ \A i \in 1..Len(conns) : conns[i].closes <= 1
          /\ \A c \in 1..Len(closing) :
                closing[c].pc \in {"wait", "lock"} =>
                  /\ tcpClient # NilListener => listeners[tcpClient] = "open"
                  /\ tcpCluster # NilListener => listeners[tcpCluster] = "open")

\* C18 witness: a first Close() closed a listener and a registered provider
\* and returned, and a second Close() was called after it.
C18_Witness ==
  /\ closed.calls = 2 /\ closed.returned /\ ~CloseInProgress /\ CloseCallsInTurn
  /\ \E l \in 1..Len(listeners) : listeners[l] = "closed"
  /\ \E i \in Providers : Registered(i) = 1 /\ conns[i].closes = 1

\* A Serve call of class k started the accept loop of the class, and no
\* Close() was called since.
ClassStarted(k) ==
  closed.calls = 0 /\ \E t \in 1..Len(loops) : loops[t].class = k

\* C19: a ServeClients (ServeClusters) call made after the accept loop of its
\* class was started returns nil, keeps the listener handle of the class and
\* starts no accept loop.
C19_SecondServeNoOp ==
  [][ /\ (ClassStarted("client") /\ \E bound \in BOOLEAN : ServeClients(bound))
          => (ret' = "nil" /\ tcpClient' = tcpClient /\ loops' = loops)
      /\ (ClassStarted("cluster") /\ \E bound \in BOOLEAN : ServeClusters(bound))
          => (ret' = "nil" /\ tcpCluster' = tcpCluster /\ loops' = loops) ]_vars

\* C20: a ServeClients / ServeClusters call whose bind fails returns the
\* error, starts no accept loop, leaves the lock free and leaves the running
\* flags and the registries as they are.
C20_BindFailureReturned ==
  [][ ( \/ (~runningClient /\ ServeClients(FALSE))
        \/ (~runningCluster /\ ServeClusters(FALSE)) )
      => /\ ret' = "error"
         /\ loops' = loops
         /\ mc' = "free"
         /\ UNCHANGED << runningClient, runningCluster, clients, clusters >> ]_vars

\* C20 witness: a bind failed (no Close() was called, so the failure is that
\* of net.Listen) and returned its error while a provider was registered.
C20_Witness ==
  /\ nfails = 1 /\ closed.calls = 0 /\ ret = "error"
  /\ clients # << >>

\* C29: a server built from a Config whose Log and Trace were left unset
\* never faults in a call of a sink.
C29_UnsetSinksAreNoOps == config.Log = "nil" => ~panicked

\* The handshake timeout of connection i elapsed while its handshake had not
\* completed.
TimedOutInHandshake(i) == conns[i].timer = "fired" /\ ~conns[i].late

\* C23: with TLS on, a connection whose handshake timeout elapsed before the
\* handshake completed has its socket closed, is never handed to the handler
\* (no provider is constructed or registered for it), and once the handshake
\* call has returned the accept loop is back at its loop condition or beyond.
C23_TimeoutDropsAttempt ==
  config.UseTLS =>
    \A i \in 1..Len(conns) :
       TimedOutInHandshake(i) =>
         /\ conns[i].raw = "closed"
         /\ conns[i].prov = "none"
         /\ Occurrences(clients, i) + Occurrences(clusters, i) = 0
         /\ \A t \in 1..Len(loops) :
               loops[t].conn = i =>
                  loops[t].pc \in {"handshake", "check", "exit", "call", "accept", "done"}

\* C23 witness: the timeout elapsed during the handshake, the handshake call
\* returned its error, and the loop accepted the next connection.
C23_Witness ==
  /\ config.UseTLS
  /\ \E i \in 1..Len(conns) :
       /\ TimedOutInHandshake(i) /\ conns[i].hs = "failed"
       /\ \E t \in 1..Len(loops) : loops[t].conn > i

\* The sleeps of the first n accept loops together.
RECURSIVE SleepsUpTo(_)
SleepsUpTo(n) == IF n = 0 THEN 0 ELSE loops[n].nsleeps + SleepsUpTo(n - 1)

\* C22: as long as no temporary error came since the last successful accept,
\* the delay the next temporary error will use is ACCEPT_MIN_SLEEP; and the
\* loops slept once per temporary error, never for another error.
C22_ResetAfterAccept ==
  /\ \A t \in 1..Len(loops) :
        loops[t].fresh => loops[t].sleepTime = ACCEPT_MIN_SLEEP
  /\ SleepsUpTo(Len(loops)) = ntemps

\* C22 witness: several temporary errors raised the delay, then an accept
\* succeeded and the delay is back at the minimum.
C22_Witness ==
  \E t \in 1..Len(loops) :
     /\ ntemps >= 3 /\ ntemps < 7
     /\ loops[t].conn > 0 /\ loops[t].fresh
     /\ loops[t].sleepTime = ACCEPT_MIN_SLEEP

\* C26: every counter of the server's Stat is the sum of what the increment
\* calls asked for.
C26_CountersAddUp == stats.server = stats.calls

\* The list of BaseInfo the specification asks of a query over registry reg.
ExpectedInfos(reg) == [n \in 1..Len(reg) |-> [Addr |-> "peer", Port |-> reg[n]]]

\* C27: Clients() (Clusters()) over a registry of providers returns the
\* BaseInfo of each entry in registry order and leaves both registries as they
\* are; so does a change the caller makes to the returned list.
C27_SnapshotIsCopy ==
  [][ /\ (Clients /\ Occurrences(clients, NilProvider) = 0)
          => (snapshot'.list = ExpectedInfos(clients)
              /\ UNCHANGED << clients, clusters >>)
      /\ (Clusters /\ Occurrences(clusters, NilProvider) = 0)
          => (snapshot'.list = ExpectedInfos(clusters)
              /\ UNCHANGED << clients, clusters >>)
      /\ EditSnapshot => UNCHANGED << clients, clusters >> ]_vars

\* C27 witness: Clients() returned the two registered clients, the caller
\* cut the returned list, and the registry still holds both.
C27_Witness ==
  /\ snapshot.op = "Clients" /\ snapshot.edited /\ Len(snapshot.list) = 1
  /\ Len(clients) = 2 /\ Occurrences(clients, NilProvider) = 0

\* The first record of s with this address and this port, or the zero
\* BaseInfo.
FirstMatch(s, addr, port) ==
  LET hits == {n \in 1..Len(s) : s[n].Addr = addr /\ s[n].Port = port}
  IN IF hits = {} THEN ZeroInfo
     ELSE s[CHOOSE n \in hits : \A m \in hits : n <= m]

\* C28: HasAddr(addr, port) returns the first record whose address and port
\* are both the ones looked for, and the zero BaseInfo when there is none.
C28_HasAddrFirstMatch ==
  [][ found' # found =>
        found'.info = FirstMatch(snapshot.list, found'.addr, found'.port) ]_vars

\* C39: whatever the accept outcomes were, every duration an accept loop
\* slept is at least ACCEPT_MIN_SLEEP and at most ACCEPT_MAX_SLEEP.
C39_SleepWithinBounds ==
  \A t \in 1..Len(loops) :
     loops[t].nsleeps > 0 =>
        /\ loops[t].slept >= ACCEPT_MIN_SLEEP
        /\ loops[t].slept <= ACCEPT_MAX_SLEEP

\* C39 witness: the loop slept the longest delay the doubling reaches, and
\* after the next temporary error the delay wrapped round.
C39_Witness ==
  \E t \in 1..Len(loops) :
     /\ loops[t].nsleeps = 7
     /\ loops[t].slept = 640
     /\ loops[t].sleepTime = ACCEPT_MIN_SLEEP

\* C33: at the step at which a Close() call made after a Serve call started
\* an accept loop returns, every accept loop started so far has finished,
\* also one whose goroutine had not yet added itself to opWG when Close()
\* began.
C33_CloseWaitsForStartedLoops ==
  [][ \A c \in 1..Len(closing') :
        ( closing'[c].pc = "done" /\ (c > Len(closing) \/ closing[c].pc # "done") )
          => \A t \in 1..Len(loops) : loops'[t].pc = "done" ]_vars

\* An accept loop that has been started and has not returned.
Alive(t) == loops[t].pc # "done"

\* C31: whatever ServeClients, ServeClusters and Close calls were made, there
\* is at most one accept loop per listener class, and no two connections of
\* one class are inside handshake, handler or authentication at once.
C31_OneLoopPerClass ==
  \A t, u \in 1..Len(loops) :
     (t # u /\ loops[t].class = loops[u].class) =>
        /\ ~(Alive(t) /\ Alive(u))
        /\ ~(InIteration(t) /\ InIteration(u))

\* C37: a server built from a Config with UseTLS on holds a TLS context, and
\* no TLS upgrade is made without one.
C37_TLSContextPopulated ==
  config.UseTLS =>
     /\ config.TLSConfig # "nil"
     /\ \A i \in 1..Len(conns) : conns[i].hs # "none" => config.TLSConfig # "nil"

\* A hook or a SendMessage that calls back into the server has been called.
Reentered ==
  \/ budget.hookback # 0
       /\ \E n \in 1..Len(calls) : calls[n].hook = budget.hookback
  \/ budget.sendback # 0
       /\ \E n \in 1..Len(sent) : \E m \in 1..Len(sent[n].to) :
             sent[n].to[m].p = budget.sendback

\* C35: hooks and broadcast sends run with the lock held.  Once one that
\* calls back into a locking operation has been called, the lock stays held,
\* the dispatching task stays where it is, and no locking operation takes
\* effect any more (an accept loop that is past its loop test may still
\* return, so the counter of the loops can only go down); as long as none has
\* been called, the lock is left released.
C35_CallbackBlocksForEver ==
  /\ [](mc = "held" <=> Reentered)
  /\ [][ mc = "held" =>
           /\ mc' = "held"
           /\ UNCHANGED << serverVars, registryVars, hookVars, calls, sent,
                           snapshot >>
           /\ opWG' <= opWG
           /\ closed'.calls = closed.calls
           /\ \A c \in 1..Len(closing) :
                 closing[c].pc \in {"clear", "lock"} => closing'[c] = closing[c]
           /\ \A t \in 1..Len(loops) :
                 loops[t].pc \in {"blocked", "check", "start", "append", "connects"}
                    => loops'[t] = loops[t] ]_vars

\* C35 witness: the second connect hook called back; the first one ran, the
\* accept loop is stuck in the dispatch with the lock held.
C35_Witness ==
  /\ mc = "held"
  /\ budget.hookback = 2
  /\ Len(calls) = 2 /\ calls[2].hook = 2
  /\ \E t \in 1..Len(loops) : loops[t].pc = "blocked"

\* C38: a Closer channel of a BaseProvider is closed only after Close() was
\* called and a ReadLoop has ended, and once Close() has been called a
\* Closer channel is eventually closed, whatever calls of Init, ReadLoop,
\* Close and CloseNotify were made.
C38_CloseNotifyFires ==
  /\ [](\A c \in 1..Len(bp.chans) :
          bp.chans[c] = "closed" =>
             (bp.ncloses > 0 /\ \E t \in 1..Len(bp.tasks) : bp.tasks[t] = "done"))
  /\ ((bp.ncloses > 0) ~> (\E c \in 1..Len(bp.chans) : bp.chans[c] = "closed"))

\* The values observer n received.
ValsGot(n) == {ob.got[n][m].val : m \in 1..Len(ob.got[n])}

\* C32: an observer has received every value sent since it subscribed whose
\* Next / Done call had returned when its subscription was ended (has
\* returned, while the subscription is not ended), but for the values still
\* on their way; and it has received no value sent after its subscription
\* was ended.
C32_EndedSubscriptionIsSilent ==
  \A n \in 1..Len(ob.made) :
     LET over == ob.made[n].till >= 0
         due == {v \in (IF over THEN ob.made[n].told ELSE ob.returned) :
                   v > ob.made[n].from}
         open == 1..(IF over THEN ob.made[n].till ELSE ob.nsent)
     IN /\ (due \ {g.val : g \in ob.pending}) \subseteq ValsGot(n)
        /\ ValsGot(n) \subseteq open
====
